---- MODULE Spec2Model ----
(***************************************************************************)
(* A model of truth_table.py: the pipeline                                 *)
(*     gen_truth_table(to_rpn(tokenize(expression)))                       *)
(* run on one expression string.  A string is a sequence of one-character  *)
(* strings.  A token is a record [type, val]: token[0] is `type', token[1] *)
(* is `val'.  The code only ever tests token[0] for equality, so the three *)
(* numeric token types are modelled as tags and the bracket tokens, which  *)
(* in the code are the strings '(' and ')', have type "(" and ")".         *)
(***************************************************************************)
EXTENDS Integers, Sequences, FiniteSets, TLC

VARIABLES
    source,       \* the expression string given to parse()
    pc,           \* "tokenize", "to_rpn", "gen_truth_table", "gen_loop", "done", "raised"
    err,          \* the exception that ended the run, or "none"
    pos,          \* index of the next element of the running for-loop
    tokens,       \* tokenize: the token list
    output,       \* to_rpn: the output list
    stack,        \* to_rpn: the operator stack
    rpn,          \* the value to_rpn returned
    mappings,     \* gen_truth_table: identifier -> bool
    identifiers,  \* gen_truth_table: sorted list of identifiers
    table,        \* gen_truth_table: the rows appended so far
    i,            \* gen_truth_table: the row counter of the xrange loop
    vstack        \* gen_truth_table: the value stack of the last row evaluated

vars == <<source, pc, err, pos, tokens, output, stack, rpn, mappings,
          identifiers, table, i, vstack>>

-----------------------------------------------------------------------------
(* Program constants *)

OP_OR == "+"
OP_AND == "."
OP_NOT == "'"
OP_XOR == "^"

T_LBRACKET == "("
T_RBRACKET == ")"
T_IDENTIFIER == "T_IDENTIFIER"
T_OPERATOR == "T_OPERATOR"
T_CONSTANT == "T_CONSTANT"
ASSOC_LEFT == 259
ASSOC_RIGHT == 260

IDENTIFIERS ==
    <<"A", "B", "C", "D", "E", "F", "G", "H", "I", "J", "K", "L", "M",
      "N", "O", "P", "Q", "R", "S", "T", "U", "V", "W", "X", "Y", "Z">>

OPERATORS == <<OP_OR, OP_XOR, OP_AND, OP_NOT>>

MismatchedBracketError == "MismatchedBracketError"
ExpressionSyntaxError == "ExpressionSyntaxError"
IndexError == "IndexError"

\* Python's `x in tup' for a tuple.
InTuple(x, tup) == \E k \in DOMAIN tup : tup[k] = x

\* A swap of AND and OR in the precedence table.
PRECEDENCE_AndOrSwapped(op) ==
    CHOOSE k \in 0..3 : <<OP_AND, OP_XOR, OP_OR, OP_NOT>>[k + 1] = op

\* PRECEDENCE = dict(zip(OPERATORS, range(len(OPERATORS))))
PRECEDENCE(op) == CHOOSE k \in 0..(Len(OPERATORS) - 1) : OPERATORS[k + 1] = op

ASSOCIATION(op) == ASSOC_LEFT

Tok(type, val) == [type |-> type, val |-> val]

Top(s) == s[Len(s)]
Pop(s) == SubSeq(s, 1, Len(s) - 1)

-----------------------------------------------------------------------------
(* tokenize *)

\* '!' taken for the negation operator, as the header's example writes it.
tokenize_char_Bang(toks, char) ==
    IF InTuple(char, IDENTIFIERS) THEN Append(toks, Tok(T_IDENTIFIER, char))
    ELSE IF InTuple(char, OPERATORS) \/ char = "!"
        THEN Append(toks, Tok(T_OPERATOR, IF char = "!" THEN OP_NOT ELSE char))
    ELSE IF char = T_LBRACKET THEN Append(toks, Tok(T_LBRACKET, T_LBRACKET))
    ELSE IF char = T_RBRACKET THEN Append(toks, Tok(T_RBRACKET, T_RBRACKET))
    ELSE IF char \in {"1", "0"} THEN Append(toks, Tok(T_CONSTANT, char = "1"))
    ELSE toks

\* The body of the for-loop of tokenize: the list after one character.
tokenize_char(toks, char) ==
    IF InTuple(char, IDENTIFIERS) THEN Append(toks, Tok(T_IDENTIFIER, char))
    ELSE IF InTuple(char, OPERATORS) THEN Append(toks, Tok(T_OPERATOR, char))
    ELSE IF char = T_LBRACKET THEN Append(toks, Tok(T_LBRACKET, T_LBRACKET))
    ELSE IF char = T_RBRACKET THEN Append(toks, Tok(T_RBRACKET, T_RBRACKET))
    ELSE IF char \in {"1", "0"} THEN Append(toks, Tok(T_CONSTANT, char = "1"))
    ELSE toks

-----------------------------------------------------------------------------
(* to_rpn *)

\* The condition of the while-loop of the operator branch.
pops_top(stk, token) ==
    /\ stk # <<>>
    /\ Top(stk).type = T_OPERATOR
    /\ \/ /\ ASSOCIATION(token.val) = ASSOC_LEFT
          /\ PRECEDENCE(token.val) <= PRECEDENCE(Top(stk).val)
       \/ PRECEDENCE(token.val) < PRECEDENCE(Top(stk).val)

\* The operator branch: pop while pops_top, then push the token.
RECURSIVE push_operator(_, _, _)
push_operator(out, stk, token) ==
    IF pops_top(stk, token)
    THEN push_operator(Append(out, Top(stk)), Pop(stk), token)
    ELSE [raised |-> FALSE, output |-> out, stack |-> Append(stk, token)]

\* The right-bracket branch with the IndexError of an exhausted stack ignored.
RECURSIVE close_bracket_Lenient(_, _)
close_bracket_Lenient(out, stk) ==
    IF stk = <<>> THEN [raised |-> FALSE, output |-> out, stack |-> stk]
    ELSE IF Top(stk).type # T_LBRACKET
    THEN close_bracket_Lenient(Append(out, Top(stk)), Pop(stk))
    ELSE [raised |-> FALSE, output |-> out, stack |-> Pop(stk)]

\* The right-bracket branch: pop to the output until a left bracket is on
\* top, then discard it; stack[-1] on an empty stack raises IndexError,
\* which is turned into MismatchedBracketError.
RECURSIVE close_bracket(_, _)
close_bracket(out, stk) ==
    IF stk = <<>> THEN [raised |-> TRUE, output |-> out, stack |-> stk]
    ELSE IF Top(stk).type # T_LBRACKET
    THEN close_bracket(Append(out, Top(stk)), Pop(stk))
    ELSE [raised |-> FALSE, output |-> out, stack |-> Pop(stk)]

\* The body of the for-loop of to_rpn for one token.
to_rpn_token(out, stk, token) ==
    IF token.type = T_CONSTANT \/ token.type = T_IDENTIFIER
    THEN [raised |-> FALSE, output |-> Append(out, token), stack |-> stk]
    ELSE IF token.type = T_OPERATOR THEN push_operator(out, stk, token)
    ELSE IF token.type = T_LBRACKET
    THEN [raised |-> FALSE, output |-> out, stack |-> Append(stk, token)]
    ELSE IF token.type = T_RBRACKET THEN close_bracket(out, stk)
    ELSE [raised |-> FALSE, output |-> out, stack |-> stk]

\* The final while-loop with its bracket test left out.
flush_raises_Never(stk) == FALSE

\* The test of the final while-loop: a bracket on top of the stack.
flush_raises(stk) ==
    Top(stk).type = T_LBRACKET \/ Top(stk).type = T_RBRACKET

-----------------------------------------------------------------------------
(* evaluate and gen_truth_table *)

\* NOT that pushes its result only when it is true.
evaluate_NotDropsFalse(stk, op) ==
    IF op \in {OP_OR, OP_AND, OP_XOR}
    THEN IF Len(stk) < 2 THEN [raised |-> TRUE, stack |-> stk]
         ELSE LET b == stk[Len(stk)]
                  a == stk[Len(stk) - 1]
                  rest == SubSeq(stk, 1, Len(stk) - 2)
              IN [raised |-> FALSE,
                  stack |-> Append(rest,
                      IF op = OP_OR THEN a \/ b
                      ELSE IF op = OP_AND THEN a /\ b
                      ELSE (a /\ ~b) \/ (~a /\ b))]
    ELSE IF Len(stk) < 1 THEN [raised |-> TRUE, stack |-> stk]
         ELSE [raised |-> FALSE,
               stack |-> IF Top(stk) THEN Pop(stk) ELSE Append(Pop(stk), TRUE)]

\* A pop from an empty stack skipped instead of raising.
evaluate_IgnoresUnderflow(stk, op) ==
    IF op \in {OP_OR, OP_AND, OP_XOR}
    THEN IF Len(stk) < 2 THEN [raised |-> FALSE, stack |-> stk]
         ELSE LET b == stk[Len(stk)]
                  a == stk[Len(stk) - 1]
                  rest == SubSeq(stk, 1, Len(stk) - 2)
              IN [raised |-> FALSE,
                  stack |-> Append(rest,
                      IF op = OP_OR THEN a \/ b
                      ELSE IF op = OP_AND THEN a /\ b
                      ELSE (a /\ ~b) \/ (~a /\ b))]
    ELSE IF Len(stk) < 1 THEN [raised |-> FALSE, stack |-> stk]
         ELSE [raised |-> FALSE, stack |-> Append(Pop(stk), ~Top(stk))]

\* evaluate(stack, op): `raised' is the IndexError of a pop from an empty
\* list; otherwise `stack' is the list after the operator.
evaluate(stk, op) ==
    IF op = OP_OR
    THEN IF Len(stk) < 2 THEN [raised |-> TRUE, stack |-> <<>>]
         ELSE LET b == stk[Len(stk)]
                  a == stk[Len(stk) - 1]
              IN [raised |-> FALSE,
                  stack |-> Append(SubSeq(stk, 1, Len(stk) - 2), a \/ b)]
    ELSE IF op = OP_AND
    THEN IF Len(stk) < 2 THEN [raised |-> TRUE, stack |-> <<>>]
         ELSE LET b == stk[Len(stk)]
                  a == stk[Len(stk) - 1]
              IN [raised |-> FALSE,
                  stack |-> Append(SubSeq(stk, 1, Len(stk) - 2), a /\ b)]
    ELSE IF op = OP_XOR
    THEN IF Len(stk) < 2 THEN [raised |-> TRUE, stack |-> <<>>]
         ELSE LET b == stk[Len(stk)]
                  a == stk[Len(stk) - 1]
              IN [raised |-> FALSE,
                  stack |-> Append(SubSeq(stk, 1, Len(stk) - 2),
                                   (a /\ ~b) \/ (~a /\ b))]
    ELSE IF op = OP_NOT
    THEN IF Len(stk) < 1 THEN [raised |-> TRUE, stack |-> <<>>]
         ELSE [raised |-> FALSE, stack |-> Append(Pop(stk), ~Top(stk))]
    ELSE [raised |-> FALSE, stack |-> stk]

\* The inner for-loop of gen_truth_table over rpn[k..], from value stack stk.
RECURSIVE run_rpn(_, _, _, _)
run_rpn(prog, k, stk, maps) ==
    IF k > Len(prog) THEN [raised |-> FALSE, stack |-> stk]
    ELSE LET token == prog[k] IN
         IF token.type = T_IDENTIFIER
         THEN run_rpn(prog, k + 1, Append(stk, maps[token.val]), maps)
         ELSE IF token.type = T_CONSTANT
         THEN run_rpn(prog, k + 1, Append(stk, token.val), maps)
         ELSE IF token.type = T_OPERATOR
         THEN LET r == evaluate(stk, token.val) IN
              IF r.raised THEN [raised |-> TRUE, stack |-> stk]
              ELSE run_rpn(prog, k + 1, r.stack, maps)
         ELSE run_rpn(prog, k + 1, stk, maps)

\* sorted(mappings.keys()) for single upper-case letters.
sorted(keys) == SelectSeq(IDENTIFIERS, LAMBDA c : c \in keys)

\* The increment walking the identifiers first to last.
RECURSIVE increment_Forward(_, _, _)
increment_Forward(maps, ids, k) ==
    IF k < 1 THEN maps
    ELSE LET key == ids[Len(ids) + 1 - k]
             m2 == [maps EXCEPT ![key] = ~maps[key]]
         IN IF m2[key] THEN m2 ELSE increment_Forward(m2, ids, k - 1)

\* for key in identifiers[::-1]: flip; stop at the first that became true.
\* k is the position in identifiers of the next key to flip.
RECURSIVE increment(_, _, _)
increment(maps, ids, k) ==
    IF k < 1 THEN maps
    ELSE LET key == ids[k]
             m2 == [maps EXCEPT ![key] = ~maps[key]]
         IN IF m2[key] THEN m2 ELSE increment(m2, ids, k - 1)

\* {'OUT': stack[0]} updated with mappings.
row_of(stk, maps) ==
    [key \in {"OUT"} \cup DOMAIN maps |->
        IF key \in DOMAIN maps THEN maps[key] ELSE stk[1]]

-----------------------------------------------------------------------------
(* The expression strings the runs start from *)

MaxLen == 3       \* every string over Alphabet up to this length
MaxExprLen == 6   \* every well-formed expression over Atoms up to this length
MaxBrLen == 6     \* every string over BrAlphabet up to this length

Alphabet ==
    {"A", "B", "1", "0", "+", "^", ".", "'", "(", ")", " ", "!", "a"}
Atoms == {"A", "B", "C", "1"}
BinOps == {OP_OR, OP_XOR, OP_AND}
BrAlphabet == {"A", "+", "(", ")"}

Strings(alphabet, n) == UNION {[1..k -> alphabet] : k \in 0..n}

\* The well-formed expressions of exactly n characters.
RECURSIVE Exprs(_)
Exprs(n) ==
    IF n < 1 THEN {}
    ELSE IF n = 1 THEN {<<a>> : a \in Atoms}
    ELSE {Append(e, OP_NOT) : e \in Exprs(n - 1)}
         \cup {<<"(">> \o e \o <<")">> : e \in Exprs(n - 2)}
         \cup UNION {{l \o <<op>> \o r :
                         l \in Exprs(k), op \in BinOps, r \in Exprs(n - 1 - k)} :
                     k \in 1..(n - 2)}

Ex_Distributed == <<"(", "A", "+", "B", ")", ".", "(", "A", "+", "C", ")">>
Ex_Factored == <<"A", "+", "(", "B", ".", "C", ")">>
Ex_Header == <<"A", " ", ".", " ", "(", "B", " ", "+", " ", "!", "C", ")">>
Ex_Primed == <<"A", ".", "(", "B", "+", "C", "'", ")">>
Ex_Mixed == <<"A", "^", "B", ".", "C", "'", "+", "0">>
Ex_Unclosed == <<"(", "A", ".", "B">>

Examples ==
    {Ex_Distributed, Ex_Factored, Ex_Header, Ex_Primed, Ex_Mixed, Ex_Unclosed}

Inputs ==
    Strings(Alphabet, MaxLen)
    \cup UNION {Exprs(n) : n \in 1..MaxExprLen}
    \cup Strings(BrAlphabet, MaxBrLen)
    \cup Examples

-----------------------------------------------------------------------------
(* The run *)

Init ==
    /\ source \in Inputs
    /\ pc = "tokenize"
    /\ err = "none"
    /\ pos = 1
    /\ tokens = <<>>
    /\ output = <<>>
    /\ stack = <<>>
    /\ rpn = <<>>
    /\ mappings = <<>>
    /\ identifiers = <<>>
    /\ table = <<>>
    /\ i = 0
    /\ vstack = <<>>

\* tokenize: one pass of `for char in source'.
TokenizeChar ==
    /\ pc = "tokenize"
    /\ pos <= Len(source)
    /\ tokens' = tokenize_char(tokens, source[pos])
    /\ pos' = pos + 1
    /\ UNCHANGED <<source, pc, err, output, stack, rpn, mappings,
                   identifiers, table, i, vstack>>

\* tokenize returns; to_rpn starts with empty output and stack.
TokenizeReturn ==
    /\ pc = "tokenize"
    /\ pos > Len(source)
    /\ pc' = "to_rpn"
    /\ pos' = 1
    /\ output' = <<>>
    /\ stack' = <<>>
    /\ UNCHANGED <<source, err, tokens, rpn, mappings, identifiers, table,
                   i, vstack>>

\* to_rpn: one pass of `for token in tokens'.
RpnToken ==
    /\ pc = "to_rpn"
    /\ pos <= Len(tokens)
    /\ LET r == to_rpn_token(output, stack, tokens[pos]) IN
         IF r.raised
         THEN /\ pc' = "raised"
              /\ err' = MismatchedBracketError
              /\ UNCHANGED <<pos, output, stack>>
         ELSE /\ output' = r.output
              /\ stack' = r.stack
              /\ pos' = pos + 1
              /\ UNCHANGED <<pc, err>>
    /\ UNCHANGED <<source, tokens, rpn, mappings, identifiers, table, i,
                   vstack>>

\* to_rpn: one pass of the final `while stack'.
RpnFlush ==
    /\ pc = "to_rpn"
    /\ pos > Len(tokens)
    /\ stack # <<>>
    /\ IF flush_raises(stack)
       THEN /\ pc' = "raised"
            /\ err' = MismatchedBracketError
            /\ UNCHANGED <<output, stack>>
       ELSE /\ output' = Append(output, Top(stack))
            /\ stack' = Pop(stack)
            /\ UNCHANGED <<pc, err>>
    /\ UNCHANGED <<source, pos, tokens, rpn, mappings, identifiers, table,
                   i, vstack>>

\* to_rpn returns output; gen_truth_table is called with it.
RpnReturn ==
    /\ pc = "to_rpn"
    /\ pos > Len(tokens)
    /\ stack = <<>>
    /\ rpn' = output
    /\ pc' = "gen_truth_table"
    /\ UNCHANGED <<source, err, pos, tokens, output, stack, mappings,
                   identifiers, table, i, vstack>>

\* gen_truth_table up to its loop: mappings, identifiers, table.
GenBegin ==
    /\ pc = "gen_truth_table"
    /\ mappings' =
         [name \in {rpn[k].val : k \in {j \in DOMAIN rpn :
                                          rpn[j].type = T_IDENTIFIER}}
            |-> FALSE]
    /\ identifiers' = sorted(DOMAIN mappings')
    /\ table' = <<>>
    /\ i' = 0
    /\ pc' = "gen_loop"
    /\ UNCHANGED <<source, err, pos, tokens, output, stack, rpn, vstack>>

\* gen_truth_table: one pass of `for i in xrange(2**len(identifiers))'.
GenRow ==
    /\ pc = "gen_loop"
    /\ i < 2 ^ Len(identifiers)
    /\ LET r == run_rpn(rpn, 1, <<>>, mappings) IN
         /\ vstack' = r.stack
         /\ IF r.raised
            THEN /\ pc' = "raised"
                 /\ err' = ExpressionSyntaxError
                 /\ UNCHANGED <<mappings, table, i>>
            ELSE IF r.stack = <<>>
            THEN /\ pc' = "raised"
                 /\ err' = IndexError
                 /\ UNCHANGED <<mappings, table, i>>
            ELSE /\ table' = Append(table, row_of(r.stack, mappings))
                 /\ mappings' = increment(mappings, identifiers,
                                          Len(identifiers))
                 /\ i' = i + 1
                 /\ UNCHANGED <<pc, err>>
    /\ UNCHANGED <<source, pos, tokens, output, stack, rpn, identifiers>>

\* gen_truth_table returns table.
GenReturn ==
    /\ pc = "gen_loop"
    /\ i = 2 ^ Len(identifiers)
    /\ pc' = "done"
    /\ UNCHANGED <<source, err, pos, tokens, output, stack, rpn, mappings,
                   identifiers, table, i, vstack>>

Next ==
    \/ TokenizeChar
    \/ TokenizeReturn
    \/ RpnToken
    \/ RpnFlush
    \/ RpnReturn
    \/ GenBegin
    \/ GenRow
    \/ GenReturn

Spec == Init /\ [][Next]_vars

-----------------------------------------------------------------------------
(* What the expression string means, read off the string itself *)

Letters == {IDENTIFIERS[k] : k \in DOMAIN IDENTIFIERS}
LettersOf(s) == {s[k] : k \in DOMAIN s} \cap Letters
AlphaIndex(c) == CHOOSE k \in DOMAIN IDENTIFIERS : IDENTIFIERS[k] = c

\* Bracket depth of s after its first k elements; `open' and `close' tell
\* which elements are brackets.
Depth(s, k, open(_), close(_)) ==
    Cardinality({j \in 1..k : open(s[j])})
    - Cardinality({j \in 1..k : close(s[j])})

CharDepth(s, k) == Depth(s, k, LAMBDA c : c = "(", LAMBDA c : c = ")")

\* The last position of the binary operator op outside every bracket, or 0.
LastTop(s, op) ==
    LET at == {k \in DOMAIN s : s[k] = op /\ CharDepth(s, k) = 0}
    IN IF at = {} THEN 0 ELSE CHOOSE k \in at : \A j \in at : j <= k

\* The split of s that the precedence OR < XOR < AND < NOT and left-to-right
\* grouping of equal operators dictate: the last OR outside brackets if there
\* is one, else the last XOR, else the last AND.
SplitAt(s) ==
    IF LastTop(s, "+") > 0 THEN LastTop(s, "+")
    ELSE IF LastTop(s, "^") > 0 THEN LastTop(s, "^")
    ELSE LastTop(s, ".")

RECURSIVE WellFormed(_)
WellFormed(s) ==
    IF s = <<>> THEN FALSE
    ELSE IF SplitAt(s) > 0
    THEN /\ WellFormed(SubSeq(s, 1, SplitAt(s) - 1))
         /\ WellFormed(SubSeq(s, SplitAt(s) + 1, Len(s)))
    ELSE IF s[Len(s)] = "'" THEN WellFormed(SubSeq(s, 1, Len(s) - 1))
    ELSE IF s[1] = "(" /\ s[Len(s)] = ")"
    THEN WellFormed(SubSeq(s, 2, Len(s) - 1))
    ELSE Len(s) = 1 /\ s[1] \in Letters \cup {"0", "1"}

\* The value of the well-formed expression s under the assignment env.
RECURSIVE Value(_, _)
Value(s, env) ==
    IF SplitAt(s) > 0
    THEN LET l == Value(SubSeq(s, 1, SplitAt(s) - 1), env)
             r == Value(SubSeq(s, SplitAt(s) + 1, Len(s)), env)
         IN IF s[SplitAt(s)] = "+" THEN l \/ r
            ELSE IF s[SplitAt(s)] = "^" THEN l # r
            ELSE l /\ r
    ELSE IF s[Len(s)] = "'" THEN ~Value(SubSeq(s, 1, Len(s) - 1), env)
    ELSE IF s[1] = "(" THEN Value(SubSeq(s, 2, Len(s) - 1), env)
    ELSE IF s[1] = "1" THEN TRUE
    ELSE IF s[1] = "0" THEN FALSE
    ELSE env[s[1]]

\* The tokens one character stands for: one or none.
RECURSIVE ExpectedTokens(_)
ExpectedTokens(s) ==
    IF s = <<>> THEN <<>>
    ELSE LET c == s[Len(s)]
             one == IF c \in Letters THEN <<Tok(T_IDENTIFIER, c)>>
                    ELSE IF c = "1" THEN <<Tok(T_CONSTANT, TRUE)>>
                    ELSE IF c = "0" THEN <<Tok(T_CONSTANT, FALSE)>>
                    ELSE IF c \in {"+", "^", ".", "'"}
                    THEN <<Tok(T_OPERATOR, c)>>
                    ELSE IF c = "(" THEN <<Tok("(", "(")>>
                    ELSE IF c = ")" THEN <<Tok(")", ")")>>
                    ELSE <<>>
         IN ExpectedTokens(SubSeq(s, 1, Len(s) - 1)) \o one

TokDepth(toks, k) ==
    Depth(toks, k, LAMBDA t : t.type = "(", LAMBDA t : t.type = ")")

\* Every right bracket has an earlier unclosed left bracket, and every left
\* bracket is closed.
Balanced(toks) ==
    /\ \A k \in DOMAIN toks : TokDepth(toks, k) >= 0
    /\ TokDepth(toks, Len(toks)) = 0

IsBracket(t) == t.type \in {"(", ")"}
IsOperand(t) == t.type \in {T_IDENTIFIER, T_CONSTANT}

\* A token as a string, so that tokens of different kinds can be compared.
Key(t) ==
    IF t.type = T_CONSTANT THEN (IF t.val THEN "1" ELSE "0") ELSE t.val

Keys(toks) == [k \in DOMAIN toks |-> Key(toks[k])]
Count(ks, x) == Cardinality({k \in DOMAIN ks : ks[k] = x})

\* Some operator of the postfix sequence prog, from position k with d values
\* on the value stack, finds fewer values than it needs.
RECURSIVE Underflows(_, _, _)
Underflows(prog, k, d) ==
    IF k > Len(prog) THEN FALSE
    ELSE IF IsOperand(prog[k]) THEN Underflows(prog, k + 1, d + 1)
    ELSE IF prog[k].type # T_OPERATOR THEN Underflows(prog, k + 1, d)
    ELSE LET need == IF prog[k].val = "'" THEN 1 ELSE 2
         IN d < need \/ Underflows(prog, k + 1, d - need + 1)

ToRpnReturned == pc \in {"gen_truth_table", "gen_loop", "done"}
                 \/ (pc = "raised" /\ err # MismatchedBracketError)
GenEnded == pc = "done" \/ (pc = "raised" /\ err # MismatchedBracketError)

-----------------------------------------------------------------------------
(* Claims *)

\* C1: for a well-formed infix expression the OUT value of every row of the
\* returned table is the value of the expression under the row's assignment,
\* read with precedence OR < XOR < AND < NOT, equal operators grouping left
\* to right and brackets overriding; "(A+B).(A+C)" gives the 8 values of
\* A+(B.C).
C1_OutIsValue ==
    (pc = "done" /\ WellFormed(source)) =>
        /\ \A r \in DOMAIN table : table[r]["OUT"] = Value(source, table[r])
        /\ source = Ex_Distributed =>
             /\ Len(table) = 8
             /\ \A r \in DOMAIN table :
                  table[r]["OUT"] = (table[r]["A"] \/ (table[r]["B"] /\ table[r]["C"]))

C1_Witness ==
    /\ pc = "done"
    /\ source = Ex_Distributed
    /\ Len(table) = 8

\* C2: row r (0-based) gives the k-th identifier in alphabetical order the
\* k-th most significant bit of the n-bit binary representation of r: the
\* first row is all-false, the last all-true, and the last identifier
\* toggles on every row.
C2_RowsCountInBinary ==
    pc \in {"gen_loop", "done"} =>
        LET n == Len(identifiers) IN
        /\ \A k \in 1..n : identifiers[k] \in LettersOf(source)
        /\ \A k, l \in 1..n :
             k < l => AlphaIndex(identifiers[k]) < AlphaIndex(identifiers[l])
        /\ \A r \in DOMAIN table : \A k \in 1..n :
             table[r][identifiers[k]] = (((r - 1) \div (2 ^ (n - k))) % 2 = 1)
        /\ Len(table) >= 1 => \A k \in 1..n : ~table[1][identifiers[k]]
        /\ pc = "done" => \A k \in 1..n : table[Len(table)][identifiers[k]]
        /\ n >= 1 => \A r \in 1..(Len(table) - 1) :
             table[r][identifiers[n]] # table[r + 1][identifiers[n]]

C2_Witness ==
    /\ pc = "done"
    /\ Len(identifiers) = 3
    /\ Len(table) = 8

\* C3: a run that does not end in MismatchedBracketError or
\* ExpressionSyntaxError returns a table of exactly 2^n rows, n the number
\* of distinct identifier letters of the string, each row with exactly
\* those identifiers and OUT as keys.
C3_TableOrTheTwoErrors ==
    (pc \in {"done", "raised"}
        /\ err \notin {MismatchedBracketError, ExpressionSyntaxError}) =>
        /\ pc = "done"
        /\ Len(table) = 2 ^ Cardinality(LettersOf(source))
        /\ \A r \in DOMAIN table :
             DOMAIN table[r] = LettersOf(source) \cup {"OUT"}

\* C4: to_rpn raises MismatchedBracketError exactly when the brackets of
\* its input are not balanced, and returns without any error when they are.
C4_RaisesIffUnbalanced ==
    /\ pc = "to_rpn" => err = "none"
    /\ pc \notin {"tokenize", "to_rpn"} =>
         /\ (pc = "raised" /\ err = MismatchedBracketError)
              <=> ~Balanced(tokens)
         /\ Balanced(tokens) => ToRpnReturned

C4_Witness ==
    /\ pc = "raised"
    /\ err = MismatchedBracketError
    /\ source = Ex_Unclosed

\* C5: gen_truth_table fails with ExpressionSyntaxError whenever evaluating
\* the postfix sequence leaves zero values or more than one value on the
\* value stack; it returns no table for it and fails with no other error.
C5_ResidueIsSyntaxError ==
    (GenEnded /\ Len(vstack) # 1) =>
        /\ pc = "raised"
        /\ err = ExpressionSyntaxError
        /\ table = <<>>

\* C6: when an operator of the postfix sequence finds fewer values on the
\* value stack than it needs, gen_truth_table raises ExpressionSyntaxError
\* and returns no table.
C6_UnderflowIsSyntaxError ==
    Underflows(rpn, 1, 0) =>
        /\ table = <<>>
        /\ i = 0
        /\ pc # "done"
        /\ pc = "raised" => err = ExpressionSyntaxError

C6_Witness ==
    /\ source = <<".", "A">>
    /\ pc = "raised"
    /\ err = ExpressionSyntaxError

\* C7: "A . (B + !C)" gives the 8-row table of the file header, OUT being 1
\* exactly on (A,B,C) = (1,0,0), (1,1,0) and (1,1,1).
C7_HeaderTable ==
    (pc = "done" /\ source = Ex_Header) =>
        /\ Len(table) = 8
        /\ \A r \in DOMAIN table :
             table[r]["OUT"] =
                (<<table[r]["A"], table[r]["B"], table[r]["C"]>> \in
                    {<<TRUE, FALSE, FALSE>>, <<TRUE, TRUE, FALSE>>,
                     <<TRUE, TRUE, TRUE>>})

C9_RpnRearrangesTokens ==
    /\ pc = "to_rpn" =>
         \A k \in DOMAIN stack : stack[k].type \in {T_OPERATOR, T_LBRACKET}
    /\ ToRpnReturned =>
         /\ \A k \in DOMAIN rpn : ~IsBracket(rpn[k])
         /\ \A x \in {Key(tokens[k]) : k \in DOMAIN tokens} \ {"(", ")"} :
              Count(Keys(rpn), x) = Count(Keys(tokens), x)
         /\ Len(rpn) = Len(SelectSeq(tokens, LAMBDA t : ~IsBracket(t)))
         /\ Keys(SelectSeq(rpn, IsOperand)) = Keys(SelectSeq(tokens, IsOperand))

C9_Witness ==
    /\ pc = "gen_truth_table"
    /\ source = Ex_Distributed
    /\ Len(rpn) = 7

\* C10: an error of gen_truth_table is raised while the first row is being
\* computed or not at all: no row has been appended when it is raised, and
\* a run whose first row is appended ends with all 2^n rows.
C10_ErrorOnlyInFirstRow ==
    /\ (pc = "raised" /\ err # MismatchedBracketError) =>
         (table = <<>> /\ i = 0)
    /\ Len(table) >= 1 => pc \in {"gen_loop", "done"}
    /\ pc = "done" => Len(table) = 2 ^ Len(identifiers)

C10_Witness ==
    /\ pc = "raised"
    /\ err = ExpressionSyntaxError
    /\ Len(identifiers) >= 1

====
